---- MODULE Spec2Model ----
(***************************************************************************)
(* Model of the two utility scripts of the pacosako backend:               *)
(*   backend/all_board_to_database.py  (the Loader: CSV -> sqlite table)   *)
(*   backend/src/test/hist.py          (the Analyzer: CSV -> histogram)    *)
(* Text is modelled as a sequence of one-character strings, so that the    *)
(* conversions the libraries apply (column affinity, number parsing) are   *)
(* computed and not assumed.                                               *)
(***************************************************************************)
EXTENDS Integers, Sequences, FiniteSets, TLC

VARIABLES
    \* ---- Loader ----
    csv_file,      \* 'all_boards.csv': [exists, header, lines]
    lpc,           \* position of the loader script
    tableExists,   \* the games table exists in all_boards.sqlite
    committed,     \* persisted rows of games, in rowid (insertion) order
    pending,       \* rows inserted in the connection's open transaction
    pos,           \* number of lines of the file the reader has consumed
    row,           \* the DictReader row of the current iteration
    before,        \* rows persisted when the current run started (history)
    runs,          \* number of runs of the script started so far
    \* ---- Analyzer ----
    data_file,     \* timing column of 'paco_2_performance.csv': seq of cells
    apc,           \* position of the analyzer script
    timings,       \* the Series `timings` (seq of floats, NaN included)
    dtype,         \* dtype of the column as read_csv inferred it
    p50, p90, p95, \* quantiles, in hundredths
    average_timing,\* mean as [sum, count]
    histogram_plot,\* the data handed to plt.hist
    markers,       \* positions of the axvline markers
    annotations,   \* the rounded values written next to the markers
    image          \* 'timing_histogram.png' has been written

lvars == <<csv_file, lpc, tableExists, committed, pending, pos, row, before, runs>>
avars == <<data_file, apc, timings, dtype, p50, p90, p95, average_timing,
           histogram_plot, markers, annotations, image>>
vars == <<lvars, avars>>

\* ------------------------------------------------------------------ bounds
\* MaxRows: lines of the input file; MaxRuns: runs of the loader;
\* MaxSamples, MaxVal: length and largest value of the timing column
MaxRows == 3
MaxRuns == 2
MaxSamples == 4
MaxVal == 3

\* ------------------------------------------------------------ text helpers
Range(s) == {s[i] : i \in 1..Len(s)}

Digits == {"0", "1", "2", "3", "4", "5", "6", "7", "8", "9"}

DigitVal == ("0" :> 0) @@ ("1" :> 1) @@ ("2" :> 2) @@ ("3" :> 3) @@ ("4" :> 4)
            @@ ("5" :> 5) @@ ("6" :> 6) @@ ("7" :> 7) @@ ("8" :> 8) @@ ("9" :> 9)

\* decimal value of a digit string (leading zeros allowed)
RECURSIVE IntValue(_)
IntValue(s) ==
    IF s = <<>> THEN 0
    ELSE 10 * IntValue(SubSeq(s, 1, Len(s) - 1)) + DigitVal[s[Len(s)]]

LooksInteger(s) == s # <<>> /\ \A i \in 1..Len(s) : s[i] \in Digits

\* ------------------------------------------------------- Python / SQL values
PyNone == [kind |-> "None"]
PyStr(s) == [kind |-> "str", s |-> s]

SqlNull == [t |-> "null"]
SqlInt(n) == [t |-> "integer", i |-> n]
SqlText(s) == [t |-> "text", s |-> s]

\* variant: the column keeps every str as text (no INTEGER affinity)
IntegerAffinityText(v) ==
    IF v.kind = "None" THEN SqlNull ELSE SqlText(v.s)

\* The value sqlite stores for a bound Python value in a column declared
\* INTEGER: None is NULL; a str that is a well-formed integer is converted
\* to that integer; any other str is stored as the text it is.
IntegerAffinity(v) ==
    IF v.kind = "None" THEN SqlNull
    ELSE IF LooksInteger(v.s) THEN SqlInt(IntValue(v.s))
    ELSE SqlText(v.s)

\* ... and in a column declared TEXT: a str is stored unchanged.
TextAffinity(v) ==
    IF v.kind = "None" THEN SqlNull ELSE SqlText(v.s)

\* ---------------------------------------------------------------- inputs
Header == <<"game_id", "half_move_count", "victory_state", "fen">>
HeaderNoFen == <<"game_id", "half_move_count", "victory_state">>
Headers == {Header, HeaderNoFen}

\* lines of the data part of the file, as the csv reader splits them
LineA == << <<"1">>, <<"1", "0">>, <<"w">>, <<"f", "1">> >>
LineB == << <<"0", "1">>, <<"3">>, <<"b">>, <<"0", "7">> >>
LineShort == << <<"2">>, <<"5">> >>
LineLong == << <<"3">>, <<"7">>, <<"w">>, <<"f", "3">>, <<"x">> >>
LineBlank == << >>
Lines == {LineA, LineB, LineShort, LineLong, LineBlank}

\* the records the well-formed lines denote
RecordA == [game_id |-> 1, half_move_count |-> 10,
            victory_state |-> <<"w">>, fen |-> <<"f", "1">>]
RecordB == [game_id |-> 1, half_move_count |-> 3,
            victory_state |-> <<"b">>, fen |-> <<"0", "7">>]
RecordOf(line) == IF line = LineA THEN RecordA ELSE RecordB
WellFormed(line) == line \in {LineA, LineB}

SeqsUpTo(S, n) == UNION {[1..k -> S] : k \in 0..n}

CsvFiles ==
    {[exists |-> FALSE, header |-> Header, lines |-> <<>>]}
    \cup {[exists |-> TRUE, header |-> h, lines |-> ls] :
            h \in Headers, ls \in SeqsUpTo(Lines, MaxRows)}

\* a row that an earlier, unrelated load left in the table
ExistingRow == [game_id |-> SqlInt(1), half_move_count |-> SqlInt(4),
                victory_state |-> SqlText(<<"d">>), fen |-> SqlText(<<"f", "0">>)]

NoRow == [kind |-> "none"]

\* ---------------------------------------------------------- csv.DictReader
RestKey == "None"

\* variant: the first data line is consumed as if it were a second header
NextLineSkipsFirst(ls, p) ==
    LET q == IF p = 0 THEN 1 ELSE p
    IN  IF \E i \in (q + 1)..Len(ls) : ls[i] # <<>>
        THEN CHOOSE i \in (q + 1)..Len(ls) :
                ls[i] # <<>> /\ \A j \in (q + 1)..(i - 1) : ls[j] = <<>>
        ELSE 0

\* index of the first non-blank line after position p, 0 if there is none
\* (the reader skips blank lines)
NextLine(ls, p) ==
    IF \E i \in (p + 1)..Len(ls) : ls[i] # <<>>
    THEN CHOOSE i \in (p + 1)..Len(ls) :
            ls[i] # <<>> /\ \A j \in (p + 1)..(i - 1) : ls[j] = <<>>
    ELSE 0

\* variant: a plain zip of field names and values, without restval/restkey
DictRowZip(h, line) ==
    [k \in {h[j] : j \in 1..(IF Len(line) < Len(h) THEN Len(line) ELSE Len(h))} |->
        LET i == CHOOSE j \in 1..Len(h) : h[j] = k
        IN  PyStr(line[i])]

\* the dict DictReader yields for a non-blank line: one key per field name,
\* missing values filled with restval (None), surplus values collected under
\* restkey (None)
DictRow(h, line) ==
    [k \in Range(h) \cup (IF Len(line) > Len(h) THEN {RestKey} ELSE {}) |->
        IF k = RestKey THEN [kind |-> "list", s |-> SubSeq(line, Len(h) + 1, Len(line))]
        ELSE LET i == CHOOSE j \in 1..Len(h) : h[j] = k
             IN  IF i <= Len(line) THEN PyStr(line[i]) ELSE PyNone]

\* ------------------------------------------------------------------ Loader
\* the parameter tuple of the INSERT, bound to the four columns
InsertedRow(r) ==
    [game_id |-> IntegerAffinity(r["game_id"]),
     half_move_count |-> IntegerAffinity(r["half_move_count"]),
     victory_state |-> TextAffinity(r["victory_state"]),
     fen |-> TextAffinity(r["fen"])]

LInit ==
    /\ csv_file \in CsvFiles
    /\ lpc = "start"
    /\ \/ tableExists = FALSE /\ committed = <<>>
       \/ tableExists = TRUE /\ committed = <<ExistingRow>>
    /\ pending = <<>>
    /\ pos = 0
    /\ row = NoRow
    /\ before = committed
    /\ runs = 1

\* an uncaught exception ends the process; the connection is torn down
\* without a commit, which rolls its open transaction back
Crash ==
    /\ lpc' = "failed"
    /\ pending' = <<>>
    /\ row' = NoRow
    /\ UNCHANGED <<avars, csv_file, tableExists, committed, pos, before, runs>>

\* sqlite3.connect
Connect ==
    /\ lpc = "start"
    /\ lpc' = "connected"
    /\ UNCHANGED <<avars, csv_file, tableExists, committed, pending, pos, row, before, runs>>

\* CREATE TABLE IF NOT EXISTS: DDL runs outside a transaction and persists
CreateTable ==
    /\ lpc = "connected"
    /\ lpc' = "created"
    /\ tableExists' = TRUE
    /\ UNCHANGED <<avars, csv_file, committed, pending, pos, row, before, runs>>

\* open('all_boards.csv') and csv.DictReader
OpenCsv ==
    /\ lpc = "created"
    /\ csv_file.exists
    /\ lpc' = "reading"
    /\ pos' = 0
    /\ UNCHANGED <<avars, csv_file, tableExists, committed, pending, row, before, runs>>

OpenFail ==
    /\ lpc = "created"
    /\ ~csv_file.exists
    /\ Crash

\* for row in csv_reader: the next non-blank line becomes the row
NextRow ==
    /\ lpc = "reading"
    /\ LET i == NextLine(csv_file.lines, pos)
       IN  IF i = 0
           THEN /\ lpc' = "eof"
                /\ pos' = Len(csv_file.lines)
                /\ row' = NoRow
           ELSE /\ lpc' = "insert"
                /\ pos' = i
                /\ row' = DictRow(csv_file.header, csv_file.lines[i])
    /\ UNCHANGED <<avars, csv_file, tableExists, committed, pending, before, runs>>

\* the reader raises (I/O error, undecodable bytes, csv.Error)
ReadFail ==
    /\ lpc = "reading"
    /\ NextLine(csv_file.lines, pos) # 0
    /\ Crash

\* variant: the connection in autocommit mode, every INSERT persisted at once
ExecInsertAutocommit(r) ==
    /\ committed' = Append(committed, InsertedRow(r))
    /\ pending' = pending

\* variant: game_id enforced unique, a second row with the same id ignored
ExecInsertOrIgnore(r) ==
    /\ pending' = IF \E k \in 1..Len(committed \o pending) :
                        (committed \o pending)[k].game_id = InsertedRow(r).game_id
                  THEN pending
                  ELSE Append(pending, InsertedRow(r))
    /\ committed' = committed

\* the effect of a successful INSERT on the database: the row joins the
\* connection's open transaction
ExecInsert(r) ==
    /\ pending' = Append(pending, InsertedRow(r))
    /\ committed' = committed

\* cur.execute('INSERT ...', (row['game_id'], ...))
InsertRow ==
    /\ lpc = "insert"
    /\ Range(Header) \subseteq DOMAIN row
    /\ ExecInsert(row)
    /\ lpc' = "reading"
    /\ row' = NoRow
    /\ UNCHANGED <<avars, csv_file, tableExists, pos, before, runs>>

\* row['fen'] etc. raises KeyError when the header lacks the column
InsertKeyError ==
    /\ lpc = "insert"
    /\ ~(Range(Header) \subseteq DOMAIN row)
    /\ Crash

\* the INSERT itself raises (sqlite3.Error)
InsertFail ==
    /\ lpc = "insert"
    /\ Range(Header) \subseteq DOMAIN row
    /\ Crash

\* conn.commit()
Commit ==
    /\ lpc = "eof"
    /\ committed' = committed \o pending
    /\ pending' = <<>>
    /\ lpc' = "committed"
    /\ UNCHANGED <<avars, csv_file, tableExists, pos, row, before, runs>>

\* conn.close()
Close ==
    /\ lpc = "committed"
    /\ lpc' = "done"
    /\ UNCHANGED <<avars, csv_file, tableExists, committed, pending, pos, row, before, runs>>

\* the script is started again on the same files
Rerun ==
    /\ lpc \in {"done", "failed"}
    /\ runs < MaxRuns
    /\ runs' = runs + 1
    /\ lpc' = "start"
    /\ pos' = 0
    /\ before' = committed
    /\ UNCHANGED <<avars, csv_file, tableExists, committed, pending, row>>

LNext ==
    \/ Connect \/ CreateTable \/ OpenCsv \/ OpenFail \/ NextRow \/ ReadFail
    \/ InsertRow \/ InsertKeyError \/ InsertFail \/ Commit \/ Close \/ Rerun

\* ---------------------------------------------------------------- Analyzer
\* floats: NaN, or a number
NaN == [nan |-> TRUE]
Num(v) == [nan |-> FALSE, v |-> v]

\* decimal text of a natural number
DigitChar(d) == CHOOSE c \in Digits : DigitVal[c] = d
RECURSIVE Dec(_)
Dec(n) == IF n < 10 THEN <<DigitChar(n)>> ELSE Append(Dec(n \div 10), DigitChar(n % 10))

\* some of the strings read_csv takes for a missing value by default
NaValues == {<<>>, <<"N", "A">>, <<"N", "a", "N">>, <<"n", "a", "n">>,
             <<"n", "u", "l", "l">>}

\* cells of the timing column
CellEmpty == <<>>
CellText == <<"x">>
Cells == {Dec(v) : v \in 1..MaxVal} \cup {CellEmpty, CellText}

\* the input 1, 2, ..., 100
Timings1To100 == [i \in 1..100 |-> Dec(i)]

DataFiles == SeqsUpTo(Cells, MaxSamples) \cup {Timings1To100}

IsNumeric(c) == LooksInteger(c)

\* variant: every cell that is not a number is coerced to NaN
InferDtypeCoerce(cells) ==
    IF cells = <<>> THEN "object"
    ELSE IF \E i \in 1..Len(cells) : ~IsNumeric(cells[i]) THEN "float64"
    ELSE "int64"

\* dtype read_csv infers for the column: a column without rows, or with a
\* cell that is neither a number nor a missing-value marker, stays object
InferDtype(cells) ==
    IF cells = <<>> THEN "object"
    ELSE IF \E i \in 1..Len(cells) : ~IsNumeric(cells[i]) /\ cells[i] \notin NaValues
         THEN "object"
    ELSE IF \E i \in 1..Len(cells) : cells[i] \in NaValues THEN "float64"
    ELSE "int64"

\* the column as read_csv returns it
ParseColumn(cells) ==
    IF InferDtype(cells) = "object"
    THEN [i \in 1..Len(cells) |-> PyStr(cells[i])]
    ELSE [i \in 1..Len(cells) |->
            IF IsNumeric(cells[i]) THEN Num(IntValue(cells[i])) ELSE NaN]

\* the values of a numeric Series that are not NaN, in order
Valid(s) ==
    LET kept == SelectSeq(s, LAMBDA t : ~t.nan)
    IN  [i \in 1..Len(kept) |-> kept[i].v]

\* the values in ascending order: the k-th is the value with fewer than k
\* values below it and at least k values not above it
Sort(x) ==
    [k \in 1..Len(x) |->
        CHOOSE v \in Range(x) :
            /\ Cardinality({i \in 1..Len(x) : x[i] < v}) < k
            /\ k <= Cardinality({i \in 1..Len(x) : x[i] <= v})]

\* variant: the nearest-rank percentile, without interpolation
QuantileNearestRank(s, q) ==
    LET x == Sort(Valid(s))
        n == Len(x)
        k == (q * n + 99) \div 100
    IN  IF n = 0 THEN NaN ELSE Num(100 * x[IF k = 0 THEN 1 ELSE k])

\* Series.quantile(q), q in hundredths, result in hundredths: NaN is
\* skipped; linear interpolation at position q * (n - 1) of the sorted values
Quantile(s, q) ==
    LET x == Sort(Valid(s))
        n == Len(x)
        at == q * (n - 1)
        lo == at \div 100
        frac == at % 100
        hi == IF lo + 1 < n THEN lo + 1 ELSE lo
    IN  IF n = 0 THEN NaN
        ELSE Num(100 * x[lo + 1] + frac * (x[hi + 1] - x[lo + 1]))

RECURSIVE Sum(_)
Sum(x) ==
    IF x = <<>> THEN 0
    ELSE IF Len(x) = 1 THEN x[1]
    ELSE LET m == Len(x) \div 2
         IN  Sum(SubSeq(x, 1, m)) + Sum(SubSeq(x, m + 1, Len(x)))

\* Series.mean(): NaN is skipped
Mean(s) ==
    LET x == Valid(s)
    IN  IF x = <<>> THEN NaN ELSE [nan |-> FALSE, sum |-> Sum(x), count |-> Len(x)]

\* timings < p : elementwise, False wherever a NaN is involved
Less(t, p) == ~t.nan /\ ~p.nan /\ 100 * t.v < p.v
LessOrEqual(t, p) == ~t.nan /\ ~p.nan /\ 100 * t.v <= p.v

\* variant: the filtered Series is not kept, timings stays as loaded
FilterKeepsAll(s, p) == s

\* variant: timings[timings <= p]
FilterInclusive(s, p) == SelectSeq(s, LAMBDA t : LessOrEqual(t, p))

\* timings[timings < p]
Filter(s, p) == SelectSeq(s, LAMBDA t : Less(t, p))

\* round(p) of a float in hundredths: ties go to the even integer, NaN raises
RoundError == [error |-> "ValueError"]
Rounded(n) == [error |-> "none", v |-> n]

\* variant: a rounding that lets NaN through as 0
RoundNaNAsZero(p) ==
    IF p.nan THEN Rounded(0)
    ELSE LET r == p.v \div 100
             f == p.v % 100
         IN  IF f < 50 THEN Rounded(r)
             ELSE IF f > 50 THEN Rounded(r + 1)
             ELSE IF r % 2 = 0 THEN Rounded(r) ELSE Rounded(r + 1)

Round(p) ==
    IF p.nan THEN RoundError
    ELSE LET r == p.v \div 100
             f == p.v % 100
         IN  IF f < 50 THEN Rounded(r)
             ELSE IF f > 50 THEN Rounded(r + 1)
             ELSE IF r % 2 = 0 THEN Rounded(r) ELSE Rounded(r + 1)

Raises(r) == r.error # "none"

AInit ==
    /\ data_file \in DataFiles
    /\ apc = "start"
    /\ timings = <<>>
    /\ dtype = "none"
    /\ p50 = NaN /\ p90 = NaN /\ p95 = NaN
    /\ average_timing = NaN
    /\ histogram_plot = <<>>
    /\ markers = <<>>
    /\ annotations = <<>>
    /\ image = FALSE

\* an uncaught exception ends the script
Abort ==
    /\ apc' = "failed"
    /\ UNCHANGED <<lvars, data_file, timings, dtype, p50, p90, p95, average_timing,
                   histogram_plot, markers, annotations, image>>

\* data = pd.read_csv(...); timings = data.iloc[:, 1]
ReadCsv ==
    /\ apc = "start"
    /\ timings' = ParseColumn(data_file)
    /\ dtype' = InferDtype(data_file)
    /\ apc' = "loaded"
    /\ UNCHANGED <<lvars, data_file, p50, p90, p95, average_timing,
                   histogram_plot, markers, annotations, image>>

\* p50, p90, p95 = timings.quantile(...); average_timing = timings.mean()
ComputeStats ==
    /\ apc = "loaded"
    /\ dtype # "object" \/ timings = <<>>
    /\ p50' = Quantile(timings, 50)
    /\ p90' = Quantile(timings, 90)
    /\ p95' = Quantile(timings, 95)
    /\ average_timing' = Mean(timings)
    /\ apc' = "stats"
    /\ UNCHANGED <<lvars, data_file, timings, dtype, histogram_plot, markers,
                   annotations, image>>

\* quantile of a column of strings raises TypeError; whether the quantile of
\* a column without rows raises or is NaN depends on the pandas version, so
\* both outcomes are kept for it
ComputeStatsFail ==
    /\ apc = "loaded"
    /\ dtype = "object"
    /\ Abort

\* timings = timings[timings < p95]
FilterTimings ==
    /\ apc = "stats"
    /\ timings' = Filter(timings, p95)
    /\ apc' = "filtered"
    /\ UNCHANGED <<lvars, data_file, dtype, p50, p90, p95, average_timing,
                   histogram_plot, markers, annotations, image>>

\* plt.figure; plt.hist(timings, bins=50, ...)
Hist ==
    /\ apc = "filtered"
    /\ histogram_plot' = timings
    /\ apc' = "plotted"
    /\ UNCHANGED <<lvars, data_file, timings, dtype, p50, p90, p95, average_timing,
                   markers, annotations, image>>


\* plt.axvline(p50), plt.axvline(p90), plt.axvline(p95)
Markers ==
    /\ apc = "plotted"
    /\ markers' = <<p50, p90, p95>>
    /\ apc' = "marked"
    /\ UNCHANGED <<lvars, data_file, timings, dtype, p50, p90, p95, average_timing,
                   histogram_plot, annotations, image>>

\* plt.text(..., f'P50: {round(p50)}'), ...; then the axis labels and title
Annotate ==
    /\ apc = "marked"
    /\ ~Raises(Round(p50)) /\ ~Raises(Round(p90)) /\ ~Raises(Round(p95))
    /\ annotations' = <<Round(p50).v, Round(p90).v, Round(p95).v>>
    /\ apc' = "annotated"
    /\ UNCHANGED <<lvars, data_file, timings, dtype, p50, p90, p95, average_timing,
                   histogram_plot, markers, image>>

\* round(nan) raises ValueError
AnnotateFail ==
    /\ apc = "marked"
    /\ Raises(Round(p50)) \/ Raises(Round(p90)) \/ Raises(Round(p95))
    /\ Abort

\* plt.savefig('timing_histogram.png')
SaveFig ==
    /\ apc = "annotated"
    /\ image' = TRUE
    /\ apc' = "done"
    /\ UNCHANGED <<lvars, data_file, timings, dtype, p50, p90, p95, average_timing,
                   histogram_plot, markers, annotations>>

ANext ==
    \/ ReadCsv \/ ComputeStats \/ ComputeStatsFail \/ FilterTimings \/ Hist
    \/ Markers \/ Annotate \/ AnnotateFail \/ SaveFig

\* ---------------------------------------------------------- specifications
\* while one script is studied the other one is not started
AIdle ==
    /\ data_file = <<>>
    /\ apc = "start"
    /\ timings = <<>>
    /\ dtype = "none"
    /\ p50 = NaN /\ p90 = NaN /\ p95 = NaN
    /\ average_timing = NaN
    /\ histogram_plot = <<>>
    /\ markers = <<>>
    /\ annotations = <<>>
    /\ image = FALSE

LIdle ==
    /\ csv_file = [exists |-> FALSE, header |-> Header, lines |-> <<>>]
    /\ lpc = "start"
    /\ tableExists = FALSE
    /\ committed = <<>>
    /\ pending = <<>>
    /\ pos = 0
    /\ row = NoRow
    /\ before = <<>>
    /\ runs = 1

LoaderInit == LInit /\ AIdle
LoaderSpec == LoaderInit /\ [][LNext]_vars

AnalyzerInit == AInit /\ LIdle
AnalyzerSpec == AnalyzerInit /\ [][ANext]_vars

\* ------------------------------------------------------ Loader properties
DataRows(ls) == {i \in 1..Len(ls) : ls[i] # <<>>}
Malformed(line) == Len(line) # 0 /\ Len(line) # Len(Header)

\* the table row holding a record's values
SqlRowOf(rec) ==
    [game_id |-> SqlInt(rec.game_id), half_move_count |-> SqlInt(rec.half_move_count),
     victory_state |-> SqlText(rec.victory_state), fen |-> SqlText(rec.fen)]

\* the table rows of the two malformed lines: 2,5 and 3,7,w,f3,x
ExpectedShort == [game_id |-> SqlInt(2), half_move_count |-> SqlInt(5),
                  victory_state |-> SqlNull, fen |-> SqlNull]
ExpectedLong == [game_id |-> SqlInt(3), half_move_count |-> SqlInt(7),
                 victory_state |-> SqlText(<<"w">>), fen |-> SqlText(<<"f", "3">>)]

Expected(line) ==
    IF WellFormed(line) THEN SqlRowOf(RecordOf(line))
    ELSE IF line = LineShort THEN ExpectedShort
    ELSE ExpectedLong

ExpectedRows(ls) ==
    LET d == SelectSeq(ls, LAMBDA l : l # <<>>)
    IN  [i \in 1..Len(d) |-> Expected(d[i])]

\* C1: a successful run leaves the games table existing and has inserted
\* exactly as many rows as the file has data rows (non-blank lines after the
\* header); for a header-only file that is zero rows.
C1_RowCount ==
    lpc \in {"committed", "done"} =>
        /\ tableExists
        /\ Len(committed) = Len(before) + Cardinality(DataRows(csv_file.lines))

C1_Witness ==
    /\ lpc = "done"
    /\ Cardinality(DataRows(csv_file.lines)) >= 2
    /\ LineA \in Range(csv_file.lines)
    /\ Len(committed) = Len(before) + Cardinality(DataRows(csv_file.lines))

\* C2: insertions are all-or-nothing: until the commit at the end of the run
\* the persisted rows are the rows that were there before the run, and a run
\* that failed has left them so, with nothing of its own inserts kept.
C2_AllOrNothing ==
    /\ lpc \notin {"committed", "done"} => committed = before
    /\ lpc = "failed" => pending = <<>>

C2_Witness ==
    /\ lpc = "failed"
    /\ before # <<>>
    /\ \E j \in 1..(pos - 1) : csv_file.lines[j] # <<>>
    /\ committed = before

\* C3: after a successful run every record of the input is found among the
\* rows selected by its game_id, with its four field values.
C3_RoundTrip ==
    lpc = "done" =>
        \A i \in 1..Len(csv_file.lines) :
            WellFormed(csv_file.lines[i]) =>
                LET rec == RecordOf(csv_file.lines[i])
                    selected == {k \in 1..Len(committed) :
                                    committed[k].game_id = SqlInt(rec.game_id)}
                IN  \E k \in selected : committed[k] = SqlRowOf(rec)

C3_Witness ==
    /\ lpc = "done"
    /\ LineA \in Range(csv_file.lines)
    /\ LineB \in Range(csv_file.lines)
    /\ \E k \in 1..Len(committed) : committed[k] = SqlRowOf(RecordB)

\* C4: after a successful run the table, in insertion order, is the rows
\* present before the run followed by one row per input record in file order
\* (no deduplication by game_id).
C4_AppendInOrder ==
    lpc = "done" => committed = before \o ExpectedRows(csv_file.lines)

\* a second successful run on the same input: twice the rows
C4_Witness ==
    /\ lpc = "done"
    /\ runs = 2
    /\ Len(csv_file.lines) >= 2
    /\ csv_file.lines[1] = LineB
    /\ csv_file.lines[2] = LineA
    /\ before = ExpectedRows(csv_file.lines)
    /\ Len(committed) = 2 * Cardinality(DataRows(csv_file.lines))

\* C5 as stated: a row with the wrong number of columns ends the run in
\* failure; no row is inserted for it and the loop does not go on past it.
C5_MalformedRowAborts ==
    \A i \in 1..pos :
        Malformed(csv_file.lines[i]) =>
            \/ lpc = "failed"
            \/ lpc = "insert" /\ i = pos

\* C5 as the code has it: a row with the wrong number of columns raises
\* nothing in the script: short rows are padded with NULL, surplus values
\* are dropped, the row is inserted and the run goes on to the commit.
C5_MalformedRowInserted ==
    /\ (lpc = "insert" /\ csv_file.header = Header /\ Malformed(csv_file.lines[pos])) =>
            /\ Range(Header) \subseteq DOMAIN row
            /\ InsertedRow(row) = Expected(csv_file.lines[pos])
    /\ lpc = "done" =>
            \A i \in 1..Len(csv_file.lines) :
                Malformed(csv_file.lines[i]) =>
                    \E k \in (Len(before) + 1)..Len(committed) :
                        committed[k] = Expected(csv_file.lines[i])

C5_Witness ==
    /\ lpc = "done"
    /\ LineShort \in Range(csv_file.lines)
    /\ LineLong \in Range(csv_file.lines)
    /\ \E k \in 1..Len(committed) : committed[k] = ExpectedShort

\* ---------------------------------------------------- Analyzer properties
Full == ParseColumn(data_file)

AfterStats == {"stats", "filtered", "plotted", "marked", "annotated", "done"}
AfterFilter == {"filtered", "plotted", "marked", "annotated", "done"}
AfterMarkers == {"marked", "annotated", "done"}

Below(t, p) == ~t.nan /\ ~p.nan /\ 100 * t.v < p.v

Max(x) == CHOOSE v \in Range(x) : \A w \in Range(x) : w <= v

\* C6: the percentiles are those of the full sample set; the filtered view
\* is exactly the samples strictly below that P95, in their order; markers
\* and annotations carry the full set's percentiles.
C6_FilterAndMarkers ==
    /\ apc \in AfterStats =>
            /\ p50 = Quantile(Full, 50)
            /\ p90 = Quantile(Full, 90)
            /\ p95 = Quantile(Full, 95)
    /\ apc \in AfterFilter =>
            /\ Len(timings) = Cardinality({j \in 1..Len(Full) : Below(Full[j], p95)})
            /\ \A i \in 1..Len(Full) :
                    Below(Full[i], p95) =>
                        timings[Cardinality({j \in 1..i : Below(Full[j], p95)})] = Full[i]
            /\ histogram_plot = IF apc = "filtered" THEN <<>> ELSE timings
    /\ apc \in AfterMarkers =>
            markers = <<Quantile(Full, 50), Quantile(Full, 90), Quantile(Full, 95)>>
    /\ apc \in {"annotated", "done"} =>
            annotations = <<Round(Quantile(Full, 50)).v, Round(Quantile(Full, 90)).v,
                            Round(Quantile(Full, 95)).v>>

C6_Witness ==
    /\ apc = "done"
    /\ Len(timings) >= 2
    /\ Len(timings) < Len(Full)
    /\ timings[1].v > timings[2].v
    /\ Quantile(timings, 95) # p95
    /\ markers[3] = p95

\* C7: for a non-empty sample set, whenever P95 is less than the largest
\* sample, the filtered set has strictly fewer samples than the original.
C7_FilteredStrictlyFewer ==
    (/\ apc \in AfterFilter
     /\ Valid(Full) # <<>>
     /\ ~p95.nan
     /\ p95.v < 100 * Max(Valid(Full)))
        => Len(timings) < Len(Full)

C7_Witness ==
    /\ apc = "filtered"
    /\ Valid(Full) # <<>>
    /\ ~p95.nan
    /\ p95.v < 100 * Max(Valid(Full))
    /\ Len(timings) >= 1
    /\ Len(timings) < Len(Full)

\* C8: on a file without data rows the run ends in failure before the image
\* is written.
C8_EmptyInputFails ==
    data_file = <<>> => ~image /\ apc \notin {"annotated", "done"}

C8_Witness ==
    /\ data_file = <<>>
    /\ apc = "failed"
    /\ markers # <<>>
    /\ ~image

\* C9 as stated: a non-numeric value in the timing column aborts the run and
\* no image is written.
C9_NonNumericAborts ==
    (\E i \in 1..Len(data_file) : ~IsNumeric(data_file[i])) => ~image

\* C9 as the code has it: a value that is neither a number nor one of the
\* missing-value markers aborts the run before anything after the load has
\* run, and no image is written; the image is written by the last step only.
C9_UnparseableAborts ==
    /\ (\E i \in 1..Len(data_file) :
            ~IsNumeric(data_file[i]) /\ data_file[i] \notin NaValues)
        => ~image /\ apc \in {"start", "loaded", "failed"}
    /\ image => apc = "done"

C9_Witness ==
    /\ \E i \in 1..Len(data_file) : data_file[i] = CellText
    /\ \E i \in 1..Len(data_file) : IsNumeric(data_file[i])
    /\ apc = "failed"
    /\ ~image

\* C10: for the timings 1, 2, ..., 100 the P50 is 50.5 and the P95 is 95.05,
\* the filtered view is the samples 1..95, and the annotations read 50, 90
\* and 95.
C10_Percentiles1To100 ==
    data_file = Timings1To100 =>
        /\ apc \in AfterStats => p50 = Num(5050) /\ p95 = Num(9505)
        /\ apc \in AfterFilter => timings = [i \in 1..95 |-> Num(i)]
        /\ apc = "done" => annotations = <<50, 90, 95>>

C10_Witness ==
    /\ data_file = Timings1To100
    /\ apc = "done"
    /\ Len(timings) = 95
    /\ image
====
